---- MODULE Spec2Model ----
(***************************************************************************)
(* Plan-execution engine of the bill tracker agent (src/agent/nodes.py).   *)
(* The shared AgentState is a Python dict: the record `state` holds the    *)
(* values and state.keys the keys that are present.  Strings built with    *)
(* f-strings are modelled as sequences of tokens, so that "contains" and   *)
(* "followed by" are things the model can get wrong.                       *)
(***************************************************************************)
EXTENDS Integers, Sequences, FiniteSets, TLC

VARIABLES
  state,      \* the AgentState dict
  pc,         \* the node of the graph that runs next
  next,       \* the step the last scheduling decision named
  decisions,  \* scheduling decisions taken since the planner
  trace,      \* the plan step handlers run so far, in order
  last,       \* what the last handler run did with its tools
  answer,     \* what the classification tool answered
  apiKey,     \* settings.OPENAI_API_KEY is set
  context,    \* the context the generation tool was last called with
  scan,       \* a call of EmailScanner.scan: its arguments and what it returned
  downloads   \* the download directory and what the attachment downloads returned

vars == <<state, pc, next, decisions, trace, last, answer, apiKey, context, scan, downloads>>

\* ---------------------------------------------------------------- bounds
MaxEmails == 2
MaxDecisions == 8
\* the most messages a Gmail listing returns
MaxMessages == 2
\* the most attachment parts downloaded into one directory
MaxDownloads == 3
\* the longest lists of documents and of extracted items a response is
\* generated from
MaxContextDocs == 12
MaxContextItems == 7

\* ------------------------------------------------------- tool vocabulary
\* outcomes of one tool invocation: a result with success true, a result
\* with success false, or an exception
Outcomes == {"ok", "fail", "raise"}

ErrorTexts == {<<"timeout">>, <<"quota">>}

\* the error text of the tools called inside the plan steps
StepErrorTexts == {<<"rate limited">>}

\* str(e) of an exception raised inside a step
ExcText == <<"boom">>

\* str(KeyError('entities'))
KeyErrorEntities == <<"'entities'">>

Responses == {<<"You have 2 bills due.">>}

\* the intents IntentClassification and the classifier's prompt list
ClassifierVocabulary ==
  {"scan_bills", "scan_emails", "query_history", "analyze_spending",
   "set_reminder", "manual_add"}

\* intents the classifier can answer; the model is free text, so a value
\* outside the prompt's list ("smalltalk") and the literal "unknown" occur
Intents ==
  {"scan_bills", "scan_emails", "query_history", "analyze_spending",
   "set_reminder", "find_alternatives", "manual_add", "smalltalk", "unknown"}

NoScanType == "<absent>"
ScanTypes == {NoScanType, "bills", "promotions"}

\* the confidence the classifier reports, in tenths
Confidences == {9}

AttachmentTypes == {"bills", "invoice", "receipts", "orders"}

\* a file path is <<directory, stem, extension>>
PathA == <<"data/raw/attachments/", "a", ".pdf">>
PathC == <<"data/raw/attachments/", "c", ".png">>

\* an email of a scan result: one without attachments, one with a PDF and
\* an image
Emails ==
  { [subject |-> "s1", attachments |-> <<>>],
    [subject |-> "s2", attachments |-> <<PathA, PathC>>] }

SeqsUpTo(S, n) == UNION { [1..k -> S] : k \in 0..n }

ScanResults == SeqsUpTo(Emails, MaxEmails)

\* ------------------------------------------------------- string helpers
\* f"{prefix}{text}"
Fmt(prefix, text) == <<prefix>> \o text

\* os.path.basename
basename(path) == <<path[2], path[3]>>

\* str.endswith('.pdf')
endswith_pdf(path) == path[3] = ".pdf"

RECURSIVE JoinRepr(_)
JoinRepr(strs) ==
  IF strs = <<>> THEN <<>>
  ELSE LET r == <<"'">> \o Head(strs) \o <<"'">>
       IN  IF Len(strs) = 1 THEN r ELSE r \o <<", ">> \o JoinRepr(Tail(strs))

\* str(list_of_strings)
ListRepr(strs) == <<"[">> \o JoinRepr(strs) \o <<"]">>

\* needle in haystack, for token strings
Contains(hay, needle) ==
  \E i \in 0..(Len(hay) - Len(needle)) :
     \A j \in 1..Len(needle) : hay[i + j] = needle[j]

IsPrefix(a, b) ==
  /\ Len(a) <= Len(b)
  /\ \A i \in 1..Len(a) : a[i] = b[i]

InSeq(x, s) == \E i \in 1..Len(s) : s[i] = x

\* ------------------------------------------------------------ the state
\* dict.get(key, default) for the list-valued keys: the fields of absent
\* keys hold the default the code passes to get
Has(s, k) == k \in s.keys

Put(s, k) == s.keys \cup {k}

EmptyState ==
  [ keys               |-> {"user_query", "completed_steps", "errors"},
    intent             |-> "",
    intent_confidence  |-> 0,
    entities           |-> [email_scan_type |-> NoScanType],
    plan               |-> <<>>,
    completed_steps    |-> <<>>,
    errors             |-> <<>>,
    email_scan_results |-> <<>>,
    downloaded_files   |-> <<>>,
    pdf_parse_results  |-> <<>>,
    extracted_bills    |-> <<>>,
    saved_bill_ids     |-> <<>>,
    retrieved_documents |-> <<>>,
    database_results   |-> <<>>,
    web_search_results |-> <<>>,
    final_response     |-> <<>> ]

\* what running a handler amounts to: the state dict it leaves, whether an
\* exception left the handler instead of a return, how many tool invocations
\* it made, how many of them returned success false, and whether one raised
Out(s, exc, calls, fails, raised) ==
  [st |-> s, exc |-> exc, calls |-> calls, fails |-> fails, raised |-> raised]

\* entities.get("email_scan_type", "general")
scan_type_of(s) ==
  IF s.entities.email_scan_type = NoScanType THEN "general"
  ELSE s.entities.email_scan_type

\* ------------------------------------------------------ EmailScanner.scan
\* what chain.invoke does inside evaluate_relevance, or "setup_error" when
\* building the LLMInterface raises before evaluate_relevance is entered
Verdicts == {"relevant", "irrelevant", "llm_error", "setup_error"}

\* a listed message: whether fetching and reading it raises, what the
\* relevance check meets, and its one attachment part (none, one that
\* downloads, one whose download returns None)
Messages ==
  { m \in [fetch : {"ok", "raise"}, verdict : Verdicts,
           attach : {"none", "saved", "failed"}] :
      m.fetch = "raise" => (m.verdict = "relevant" /\ m.attach = "none") }

\* LLMInterface.evaluate_relevance: its own except turns a failed call into
\* a result with is_relevant False
evaluate_relevance(verdict) ==
  IF verdict = "llm_error"
  THEN [success |-> FALSE, is_relevant |-> FALSE,
        reasoning |-> "Error evaluating relevance"]
  ELSE [success |-> TRUE, is_relevant |-> verdict = "relevant", reasoning |-> "because"]

\* EmailScanner._is_relevant_via_llm
is_relevant_via_llm(verdict) ==
  IF verdict = "setup_error"
  THEN [is_relevant |-> TRUE, reason |-> "LLM check failed, included by default"]
  ELSE [is_relevant |-> evaluate_relevance(verdict).is_relevant,
        reason |-> evaluate_relevance(verdict).reasoning]

\* the for loop of scan from message i on; failed counts the messages
\* whose processing raised
RECURSIVE scan_loop(_, _, _, _, _)
scan_loop(messages, filtering, require_attachments, i, acc) ==
  IF i > Len(messages) THEN acc
  ELSE IF messages[i].fetch = "raise" THEN
    scan_loop(messages, filtering, require_attachments, i + 1,
              [acc EXCEPT !.failed = @ + 1])
  ELSE IF filtering /\ ~is_relevant_via_llm(messages[i].verdict).is_relevant THEN
    scan_loop(messages, filtering, require_attachments, i + 1,
      [acc EXCEPT !.filtered_out = @ + 1,
                  !.log = Append(@, [id |-> i,
                            reason |-> is_relevant_via_llm(messages[i].verdict).reason])])
  ELSE
    LET saved == require_attachments /\ messages[i].attach = "saved"
    IN  scan_loop(messages, filtering, require_attachments, i + 1,
          [acc EXCEPT !.results = Append(@, [id |-> i,
                                    attachments |-> IF saved THEN <<PathA>> ELSE <<>>]),
                      !.files = IF saved THEN @ + 1 ELSE @])

\* the scan whose filtered_count is what the listing holds less what was
\* filtered out
scan_emails_counts_listed(listing, messages, user_query, require_attachments, use_filtering) ==
  IF listing = "raise" THEN
    [success |-> FALSE, emails_found |-> 0, filtered_count |-> 0, filtered_out |-> 0,
     files_downloaded |-> 0, filtered_log |-> <<>>, results |-> <<>>, failed |-> 0]
  ELSE
    LET acc == scan_loop(messages, use_filtering /\ user_query, require_attachments, 1,
                 [results |-> <<>>, filtered_out |-> 0, log |-> <<>>, files |-> 0,
                  failed |-> 0])
    IN  [success |-> TRUE, emails_found |-> Len(messages),
         filtered_count |-> Len(messages) - acc.filtered_out,
         filtered_out |-> acc.filtered_out,
         files_downloaded |-> acc.files, filtered_log |-> acc.log,
         results |-> acc.results, failed |-> acc.failed]

\* EmailScanner.scan; user_query: a non-empty query was passed. The return
\* for an empty listing has the same counts, all 0, and no filtered_log key;
\* filtered_log here is self.filtered_emails_log, empty in that case
scan_emails(listing, messages, user_query, require_attachments, use_filtering) ==
  IF listing = "raise" THEN
    [success |-> FALSE, emails_found |-> 0, filtered_count |-> 0, filtered_out |-> 0,
     files_downloaded |-> 0, filtered_log |-> <<>>, results |-> <<>>, failed |-> 0]
  ELSE
    LET acc == scan_loop(messages, use_filtering /\ user_query, require_attachments, 1,
                 [results |-> <<>>, filtered_out |-> 0, log |-> <<>>, files |-> 0,
                  failed |-> 0])
    IN  [success |-> TRUE, emails_found |-> Len(messages),
         filtered_count |-> Len(acc.results),
         filtered_out |-> acc.filtered_out,
         files_downloaded |-> acc.files, filtered_log |-> acc.log,
         results |-> acc.results, failed |-> acc.failed]

\* ------------------------------------------- EmailScanner._download_attachment
\* a file of the download directory: the stem of its name is a base followed
\* by "_<n>" suffixes, so that "a_1" is both the second candidate for "a" and
\* a name of its own; every file here has the same extension
FilePath(base, sfx) == [base |-> base, sfx |-> sfx]

\* None
NoPath == FilePath("", <<>>)

\* the names scan gives its attachments (date, sender and subject of the
\* message): equal for parts of like messages
Filenames == {FilePath("a", <<>>), FilePath("a", <<1>>)}

\* the download and write go through; attachments().get or open raises
\* before there is a file; write raises after open has made the file
DownloadOutcomes == {"ok", "get_raise", "write_raise"}

\* the while loop: filepath is tried, then "<name>_<counter><ext>" with the
\* name of the file asked for, counter going up
RECURSIVE free_path(_, _, _, _)
free_path(dir, filename, filepath, counter) ==
  IF filepath \notin dir THEN filepath
  ELSE free_path(dir, filename,
                 FilePath(filename.base, Append(filename.sfx, counter)), counter + 1)

\* the download writing to the name it was given
download_attachment_in_place(dir, filename, outcome) ==
  IF outcome = "get_raise" THEN [path |-> NoPath, written |-> NoPath, dir |-> dir]
  ELSE [path |-> IF outcome = "ok" THEN filename ELSE NoPath,
        written |-> filename,
        dir |-> dir \cup {filename}]

\* _download_attachment: the path returned (NoPath for None), the path
\* opened for writing, and the directory afterwards
download_attachment(dir, filename, outcome) ==
  IF outcome = "get_raise" THEN [path |-> NoPath, written |-> NoPath, dir |-> dir]
  ELSE
    LET filepath == free_path(dir, filename, filename, 1)
    IN  [path |-> IF outcome = "ok" THEN filepath ELSE NoPath,
         written |-> filepath,
         dir |-> dir \cup {filepath}]

\* ------------------------------------------------------- classification
\* the classifier with a failure branch that degrades the intent to "error"
intent_classifier_node_error_intent(s, result) ==
  IF InSeq("intent_classification", s.completed_steps)
  THEN Out(s, FALSE, 0, 0, FALSE)
  ELSE IF result.outcome = "raise" THEN Out(s, TRUE, 1, 0, TRUE)
  ELSE IF result.outcome = "ok" THEN
    Out([s EXCEPT !.keys = s.keys \cup {"intent", "intent_confidence",
                                        "entities", "completed_steps"},
                  !.intent = result.intent,
                  !.intent_confidence = result.confidence,
                  !.entities = result.entities,
                  !.completed_steps =
                      s.completed_steps \o <<"intent_classification">>],
        FALSE, 1, 0, FALSE)
  ELSE
    Out([s EXCEPT !.keys = s.keys \cup {"errors", "intent"},
                  !.errors = s.errors \o <<Fmt("Intent failed: ", result.error)>>,
                  !.intent = "error"],
        FALSE, 1, 1, FALSE)

\* the classifier without its guard against re-entry
intent_classifier_node_no_guard(s, result) ==
  IF result.outcome = "raise" THEN Out(s, TRUE, 1, 0, TRUE)
  ELSE IF result.outcome = "ok" THEN
    Out([s EXCEPT !.keys = s.keys \cup {"intent", "intent_confidence",
                                        "entities", "completed_steps"},
                  !.intent = result.intent,
                  !.intent_confidence = result.confidence,
                  !.entities = result.entities,
                  !.completed_steps =
                      s.completed_steps \o <<"intent_classification">>],
        FALSE, 1, 0, FALSE)
  ELSE
    Out([s EXCEPT !.keys = s.keys \cup {"errors", "intent"},
                  !.errors = s.errors \o <<Fmt("Intent failed: ", result.error)>>,
                  !.intent = "unknown"],
        FALSE, 1, 1, FALSE)

intent_classifier_node(s, result) ==
  IF InSeq("intent_classification", s.completed_steps)
  THEN Out(s, FALSE, 0, 0, FALSE)
  ELSE IF result.outcome = "raise" THEN Out(s, TRUE, 1, 0, TRUE)
  ELSE IF result.outcome = "ok" THEN
    Out([s EXCEPT !.keys = s.keys \cup {"intent", "intent_confidence",
                                        "entities", "completed_steps"},
                  !.intent = result.intent,
                  !.intent_confidence = result.confidence,
                  !.entities = result.entities,
                  !.completed_steps =
                      s.completed_steps \o <<"intent_classification">>],
        FALSE, 1, 0, FALSE)
  ELSE
    Out([s EXCEPT !.keys = s.keys \cup {"errors", "intent"},
                  !.errors = s.errors \o <<Fmt("Intent failed: ", result.error)>>,
                  !.intent = "unknown"],
        FALSE, 1, 1, FALSE)

\* the router testing for another spelling of the failed intent
route_after_intent_error(s) ==
  IF s.intent = "error" THEN "error_handler" ELSE "planner"

\* the router sending every intent the planner has no branch for to the
\* error handler
route_after_intent_table_only(s) ==
  IF s.intent \notin {"scan_emails", "query_history", "analyze_spending",
                      "set_reminder", "find_alternatives", "manual_add"}
  THEN "error_handler" ELSE "planner"

route_after_intent(s) ==
  IF s.intent = "unknown" THEN "error_handler" ELSE "planner"

\* ---------------------------------------------------------------- planner
\* the planner's chain without its final else: plan stays []
plan_for_no_default(intent) ==
  IF intent = "scan_emails" THEN
    <<"email_scanner", "pdf_processor", "data_extractor", "database_saver",
      "response_generator">>
  ELSE IF intent = "query_history" THEN <<"rag_retriever", "response_generator">>
  ELSE IF intent = "analyze_spending" THEN <<"database_query", "response_generator">>
  ELSE IF intent = "set_reminder" THEN
    <<"database_query", "reminder_creator", "response_generator">>
  ELSE IF intent = "find_alternatives" THEN
    <<"database_query", "web_searcher", "response_generator">>
  ELSE IF intent = "manual_add" THEN
    <<"data_extractor", "database_saver", "response_generator">>
  ELSE <<>>

\* the planner with a branch of its own for scan_bills, the scan plan
plan_for_scans_bills(intent) ==
  IF intent = "scan_bills" THEN plan_for_no_default("scan_emails")
  ELSE IF plan_for_no_default(intent) = <<>>
  THEN <<"rag_retriever", "response_generator">>
  ELSE plan_for_no_default(intent)

plan_for(intent) ==
  IF intent = "scan_emails" THEN
    <<"email_scanner", "pdf_processor", "data_extractor", "database_saver",
      "response_generator">>
  ELSE IF intent = "query_history" THEN <<"rag_retriever", "response_generator">>
  ELSE IF intent = "analyze_spending" THEN <<"database_query", "response_generator">>
  ELSE IF intent = "set_reminder" THEN
    <<"database_query", "reminder_creator", "response_generator">>
  ELSE IF intent = "find_alternatives" THEN
    <<"database_query", "web_searcher", "response_generator">>
  ELSE IF intent = "manual_add" THEN
    <<"data_extractor", "database_saver", "response_generator">>
  ELSE <<"rag_retriever", "response_generator">>

\* the intents the planner's if/elif chain names
PlannerTable ==
  {"scan_emails", "query_history", "analyze_spending", "set_reminder",
   "find_alternatives", "manual_add"}

\* the planner leaving the PDF step out of a scan whose type carries no
\* attachments
planner_node_by_scan_type(s) ==
  [s EXCEPT !.keys = s.keys \cup {"plan", "completed_steps"},
            !.plan = IF s.intent = "scan_emails" /\ scan_type_of(s) \notin AttachmentTypes
                     THEN <<"email_scanner", "data_extractor", "database_saver",
                            "response_generator">>
                     ELSE plan_for(s.intent),
            !.completed_steps = s.completed_steps \o <<"planning">>]

\* the planner starting the ledger afresh
planner_node_resets_ledger(s) ==
  [s EXCEPT !.keys = s.keys \cup {"plan", "completed_steps"},
            !.plan = plan_for(s.intent),
            !.completed_steps = <<"planning">>]

\* the planner closing every plan with the indexing step
planner_node_indexes_last(s) ==
  [s EXCEPT !.keys = s.keys \cup {"plan", "completed_steps"},
            !.plan = plan_for(s.intent) \o <<"rag_indexer">>,
            !.completed_steps = s.completed_steps \o <<"planning">>]

planner_node(s) ==
  [s EXCEPT !.keys = s.keys \cup {"plan", "completed_steps"},
            !.plan = plan_for(s.intent),
            !.completed_steps = s.completed_steps \o <<"planning">>]

\* the router after planning taking the plan's last entry
route_after_plan_last(s) ==
  IF s.plan # <<>> THEN s.plan[Len(s.plan)] ELSE "response_generator"

route_after_plan(s) ==
  IF s.plan # <<>> THEN s.plan[1] ELSE "response_generator"

\* -------------------------------------------------------------- scheduler
RECURSIVE FirstNotIn(_, _)
FirstNotIn(plan, completed) ==
  IF plan = <<>> THEN "end"
  ELSE IF ~InSeq(Head(plan), completed) THEN Head(plan)
  ELSE FirstNotIn(Tail(plan), completed)

RECURSIVE Reverse(_)
Reverse(q) == IF q = <<>> THEN <<>> ELSE Append(Reverse(Tail(q)), Head(q))

\* the scan of the plan from its end
should_continue_reversed(s) == FirstNotIn(Reverse(s.plan), s.completed_steps)

\* the ledger check against the most recent entry only
should_continue_last_only(s) ==
  FirstNotIn(s.plan,
             IF s.completed_steps = <<>> THEN <<>>
             ELSE <<s.completed_steps[Len(s.completed_steps)]>>)

\* the scheduler falling back on the terminal step where the code says "end"
should_continue_never_ends(s) ==
  IF FirstNotIn(s.plan, s.completed_steps) = "end" THEN "response_generator"
  ELSE FirstNotIn(s.plan, s.completed_steps)

should_continue(s) == FirstNotIn(s.plan, s.completed_steps)

\* ------------------------------------------------------------ email scan
RECURSIVE attachment_paths(_)
attachment_paths(emails) ==
  IF emails = <<>> THEN <<>>
  ELSE Head(emails).attachments \o attachment_paths(Tail(emails))

\* the body of the try block and its except clause, then the ledger entry
\* the scanner listing the attachment paths whatever the scan type
email_scanner_node_always_files(s, result) ==
  LET tried ==
        IF ~Has(s, "entities") THEN
          [s EXCEPT !.keys = Put(s, "errors"),
                    !.errors = s.errors \o <<Fmt("Scanner Error: ", KeyErrorEntities)>>]
        ELSE IF result.outcome = "ok" THEN
          [s EXCEPT !.keys = s.keys \cup {"email_scan_results", "downloaded_files"},
                    !.email_scan_results = result.results,
                    !.downloaded_files = attachment_paths(result.results)]
        ELSE IF result.outcome = "fail" THEN
          [s EXCEPT !.keys = Put(s, "errors"),
                    !.errors = s.errors \o <<Fmt("Scan failed: ", result.error)>>]
        ELSE
          [s EXCEPT !.keys = Put(s, "errors"),
                    !.errors = s.errors \o <<Fmt("Scanner Error: ", ExcText)>>]
      invoked == Has(s, "entities")
  IN  Out([tried EXCEPT !.keys = Put(tried, "completed_steps"),
                        !.completed_steps = tried.completed_steps \o <<"email_scanner">>],
          FALSE,
          IF invoked THEN 1 ELSE 0,
          IF invoked /\ result.outcome = "fail" THEN 1 ELSE 0,
          invoked /\ result.outcome = "raise")

email_scanner_node(s, result) ==
  LET require_attachments == scan_type_of(s) \in AttachmentTypes
      tried ==
        IF ~Has(s, "entities") THEN
          [s EXCEPT !.keys = Put(s, "errors"),
                    !.errors = s.errors \o <<Fmt("Scanner Error: ", KeyErrorEntities)>>]
        ELSE IF result.outcome = "ok" THEN
          [s EXCEPT !.keys = s.keys \cup {"email_scan_results", "downloaded_files"},
                    !.email_scan_results = result.results,
                    !.downloaded_files =
                        IF require_attachments
                        THEN attachment_paths(result.results) ELSE <<>>]
        ELSE IF result.outcome = "fail" THEN
          [s EXCEPT !.keys = Put(s, "errors"),
                    !.errors = s.errors \o <<Fmt("Scan failed: ", result.error)>>]
        ELSE
          [s EXCEPT !.keys = Put(s, "errors"),
                    !.errors = s.errors \o <<Fmt("Scanner Error: ", ExcText)>>]
      invoked == Has(s, "entities")
  IN  Out([tried EXCEPT !.keys = Put(tried, "completed_steps"),
                        !.completed_steps = tried.completed_steps \o <<"email_scanner">>],
          FALSE,
          IF invoked THEN 1 ELSE 0,
          IF invoked /\ result.outcome = "fail" THEN 1 ELSE 0,
          invoked /\ result.outcome = "raise")

\* ---------------------------------------------------------- pdf processor
\* the for loop of pdf_processor_node from file i on; acc carries
\* parse_results, state["errors"] (appended in place) and the counts
RECURSIVE parse_loop(_, _, _, _, _)
parse_loop(files, outs, hasErrors, i, acc) ==
  IF i > Len(files) \/ acc.exc THEN acc
  ELSE IF ~endswith_pdf(files[i]) THEN parse_loop(files, outs, hasErrors, i + 1, acc)
  ELSE IF outs[i] = "raise" THEN
    [acc EXCEPT !.exc = TRUE, !.raised = TRUE, !.calls = @ + 1]
  ELSE IF outs[i] = "fail" THEN
    IF hasErrors THEN
      parse_loop(files, outs, hasErrors, i + 1,
        [acc EXCEPT !.calls = @ + 1, !.fails = @ + 1,
                    !.errors = @ \o <<Fmt("Failed parsing ", basename(files[i]))>>])
    ELSE [acc EXCEPT !.exc = TRUE, !.calls = @ + 1, !.fails = @ + 1]
  ELSE
    parse_loop(files, outs, hasErrors, i + 1,
      [acc EXCEPT !.calls = @ + 1,
                  !.results = @ \o <<[file_path |-> files[i],
                                      extracted_text |-> outs[i] = "ok"]>>])

pdf_processor_node(s, outs) ==
  LET r == parse_loop(s.downloaded_files, outs, Has(s, "errors"), 1,
                      [results |-> <<>>, errors |-> s.errors, exc |-> FALSE,
                       calls |-> 0, fails |-> 0, raised |-> FALSE])
      looped == [s EXCEPT !.errors = r.errors]
  IN  IF r.exc THEN Out(looped, TRUE, r.calls, r.fails, r.raised)
      ELSE Out([looped EXCEPT
                  !.keys = s.keys \cup {"pdf_parse_results", "completed_steps"},
                  !.pdf_parse_results = r.results,
                  !.completed_steps = s.completed_steps \o <<"pdf_processor">>],
               FALSE, r.calls, r.fails, r.raised)

\* --------------------------------------------------------- data extractor
\* "Extract from PDFs"
RECURSIVE extract_pdf_loop(_, _, _, _, _)
extract_pdf_loop(pdfs, outs, scan_type, i, acc) ==
  IF i > Len(pdfs) \/ acc.exc THEN acc
  ELSE IF ~pdfs[i].extracted_text THEN extract_pdf_loop(pdfs, outs, scan_type, i + 1, acc)
  ELSE IF outs[i] = "raise" THEN
    [acc EXCEPT !.exc = TRUE, !.raised = TRUE, !.calls = @ + 1]
  ELSE IF outs[i] = "fail" THEN
    extract_pdf_loop(pdfs, outs, scan_type, i + 1,
      [acc EXCEPT !.calls = @ + 1, !.fails = @ + 1])
  ELSE
    extract_pdf_loop(pdfs, outs, scan_type, i + 1,
      [acc EXCEPT !.calls = @ + 1,
                  !.items = @ \o <<[type |-> scan_type, origin |-> "pdf",
                                    source |-> pdfs[i].file_path]>>])

\* "Extract from email bodies"
RECURSIVE extract_mail_loop(_, _, _, _, _)
extract_mail_loop(emails, outs, scan_type, i, acc) ==
  IF i > Len(emails) \/ acc.exc THEN acc
  ELSE IF outs[i] = "raise" THEN
    [acc EXCEPT !.exc = TRUE, !.raised = TRUE, !.calls = @ + 1]
  ELSE IF outs[i] = "fail" THEN
    extract_mail_loop(emails, outs, scan_type, i + 1,
      [acc EXCEPT !.calls = @ + 1, !.fails = @ + 1])
  ELSE
    extract_mail_loop(emails, outs, scan_type, i + 1,
      [acc EXCEPT !.calls = @ + 1,
                  !.items = @ \o <<[type |-> scan_type, origin |-> "email",
                                    source |-> <<"Email: ", emails[i].subject>>]>>])

\* the extractor going over the email bodies whatever the PDFs gave
data_extractor_node_both_sources(s, pdfOuts, mailOuts) ==
  IF ~Has(s, "entities") THEN Out(s, TRUE, 0, 0, FALSE)
  ELSE
    LET scan_type == scan_type_of(s)
        a == extract_pdf_loop(s.pdf_parse_results, pdfOuts, scan_type, 1,
               [items |-> <<>>, exc |-> FALSE, calls |-> 0, fails |-> 0,
                raised |-> FALSE])
        b == IF ~a.exc /\ Has(s, "email_scan_results")
             THEN extract_mail_loop(s.email_scan_results, mailOuts, scan_type, 1, a)
             ELSE a
    IN  IF b.exc THEN Out(s, TRUE, b.calls, b.fails, b.raised)
        ELSE Out([s EXCEPT
                    !.keys = s.keys \cup {"extracted_bills", "completed_steps"},
                    !.extracted_bills = b.items,
                    !.completed_steps = s.completed_steps \o <<"data_extractor">>],
                 FALSE, b.calls, b.fails, b.raised)

\* the extractor turning to the text of the query when there is neither a
\* parsed PDF nor a scan result
data_extractor_node_from_query(s, pdfOuts, mailOuts) ==
  IF ~Has(s, "entities") THEN Out(s, TRUE, 0, 0, FALSE)
  ELSE
    LET scan_type == scan_type_of(s)
        a == extract_pdf_loop(s.pdf_parse_results, pdfOuts, scan_type, 1,
               [items |-> <<>>, exc |-> FALSE, calls |-> 0, fails |-> 0,
                raised |-> FALSE])
        b == IF ~a.exc /\ a.items = <<>> /\ Has(s, "email_scan_results")
             THEN extract_mail_loop(s.email_scan_results, mailOuts, scan_type, 1, a)
             ELSE a
        c == IF s.pdf_parse_results = <<>> /\ ~Has(s, "email_scan_results")
             THEN [b EXCEPT !.calls = @ + 1,
                            !.items = <<[type |-> scan_type, origin |-> "query",
                                         source |-> <<"Query">>]>>]
             ELSE b
    IN  IF c.exc THEN Out(s, TRUE, c.calls, c.fails, c.raised)
        ELSE Out([s EXCEPT
                    !.keys = s.keys \cup {"extracted_bills", "completed_steps"},
                    !.extracted_bills = c.items,
                    !.completed_steps = s.completed_steps \o <<"data_extractor">>],
                 FALSE, c.calls, c.fails, c.raised)

data_extractor_node(s, pdfOuts, mailOuts) ==
  IF ~Has(s, "entities") THEN Out(s, TRUE, 0, 0, FALSE)
  ELSE
    LET scan_type == scan_type_of(s)
        a == extract_pdf_loop(s.pdf_parse_results, pdfOuts, scan_type, 1,
               [items |-> <<>>, exc |-> FALSE, calls |-> 0, fails |-> 0,
                raised |-> FALSE])
        b == IF ~a.exc /\ a.items = <<>> /\ Has(s, "email_scan_results")
             THEN extract_mail_loop(s.email_scan_results, mailOuts, scan_type, 1, a)
             ELSE a
    IN  IF b.exc THEN Out(s, TRUE, b.calls, b.fails, b.raised)
        ELSE Out([s EXCEPT
                    !.keys = s.keys \cup {"extracted_bills", "completed_steps"},
                    !.extracted_bills = b.items,
                    !.completed_steps = s.completed_steps \o <<"data_extractor">>],
                 FALSE, b.calls, b.fails, b.raised)

\* --------------------------------------------------------- database saver
\* "Save extracted structured data"
RECURSIVE save_bill_loop(_, _, _, _)
save_bill_loop(items, outs, i, acc) ==
  IF i > Len(items) \/ acc.exc THEN acc
  ELSE IF outs[i] = "raise" THEN
    [acc EXCEPT !.exc = TRUE, !.raised = TRUE, !.calls = @ + 1]
  ELSE IF outs[i] = "fail" THEN
    save_bill_loop(items, outs, i + 1, [acc EXCEPT !.calls = @ + 1, !.fails = @ + 1])
  ELSE
    save_bill_loop(items, outs, i + 1,
      [acc EXCEPT !.calls = @ + 1, !.ids = @ \o <<"bill_doc">>])

\* "Save STRUCTURED email metadata to Vector DB"
RECURSIVE index_mail_loop(_, _, _, _)
index_mail_loop(emails, outs, i, acc) ==
  IF i > Len(emails) \/ acc.exc THEN acc
  ELSE IF outs[i] = "raise" THEN
    [acc EXCEPT !.exc = TRUE, !.raised = TRUE, !.calls = @ + 1]
  ELSE IF outs[i] = "fail" THEN
    index_mail_loop(emails, outs, i + 1, [acc EXCEPT !.calls = @ + 1, !.fails = @ + 1])
  ELSE
    index_mail_loop(emails, outs, i + 1,
      [acc EXCEPT !.calls = @ + 1, !.ids = @ \o <<"email_doc">>])

\* "Save raw PDF content": the result of add_to_rag is not looked at
RECURSIVE index_pdf_loop(_, _, _, _)
index_pdf_loop(pdfs, outs, i, acc) ==
  IF i > Len(pdfs) \/ acc.exc THEN acc
  ELSE IF ~pdfs[i].extracted_text THEN index_pdf_loop(pdfs, outs, i + 1, acc)
  ELSE IF outs[i] = "raise" THEN
    [acc EXCEPT !.exc = TRUE, !.raised = TRUE, !.calls = @ + 1]
  ELSE
    index_pdf_loop(pdfs, outs, i + 1,
      [acc EXCEPT !.calls = @ + 1,
                  !.fails = IF outs[i] = "fail" THEN @ + 1 ELSE @])

database_saver_node(s, billOuts, mailOuts, pdfOuts) ==
  IF ~Has(s, "entities") THEN Out(s, TRUE, 0, 0, FALSE)
  ELSE
    LET a == save_bill_loop(s.extracted_bills, billOuts, 1,
               [ids |-> <<>>, exc |-> FALSE, calls |-> 0, fails |-> 0,
                raised |-> FALSE])
        b == IF Has(s, "email_scan_results")
             THEN index_mail_loop(s.email_scan_results, mailOuts, 1, a) ELSE a
        c == index_pdf_loop(s.pdf_parse_results, pdfOuts, 1, b)
    IN  IF c.exc THEN Out(s, TRUE, c.calls, c.fails, c.raised)
        ELSE Out([s EXCEPT
                    !.keys = s.keys \cup {"saved_bill_ids", "completed_steps"},
                    !.saved_bill_ids = c.ids,
                    !.completed_steps = s.completed_steps \o <<"database_saver">>],
                 FALSE, c.calls, c.fails, c.raised)

\* ------------------------------------------------------ the short handlers
rag_indexer_node(s) ==
  [s EXCEPT !.keys = Put(s, "completed_steps"),
            !.completed_steps = s.completed_steps \o <<"rag_indexer">>]

\* cleaned_doc: id, text, metadata and relevance_score are copied
cleaned(results) == results

rag_retriever_node(s, res) ==
  LET tried ==
        IF res.outcome = "ok" THEN
          [s EXCEPT !.keys = Put(s, "retrieved_documents"),
                    !.retrieved_documents = cleaned(res.results)]
        ELSE IF res.outcome = "fail" THEN
          [s EXCEPT !.keys = Put(s, "retrieved_documents"),
                    !.retrieved_documents = <<>>]
        ELSE
          [s EXCEPT !.keys = s.keys \cup {"retrieved_documents", "errors"},
                    !.retrieved_documents = <<>>,
                    !.errors = s.errors \o <<Fmt("RAG retriever error: ", ExcText)>>]
  IN  Out([tried EXCEPT !.keys = Put(tried, "completed_steps"),
                        !.completed_steps = tried.completed_steps \o <<"rag_retriever">>],
          FALSE, 1, IF res.outcome = "fail" THEN 1 ELSE 0, res.outcome = "raise")

\* the ledger entry written inside the success branch
database_query_node_ledger_on_success(s, res) ==
  IF res.outcome = "raise" THEN Out(s, TRUE, 1, 0, TRUE)
  ELSE IF res.outcome = "ok" THEN
    Out([s EXCEPT !.keys = s.keys \cup {"database_results", "completed_steps"},
                  !.database_results = res.results,
                  !.completed_steps = s.completed_steps \o <<"database_query">>],
        FALSE, 1, 0, FALSE)
  ELSE Out(s, FALSE, 1, 1, FALSE)

database_query_node(s, res) ==
  IF res.outcome = "raise" THEN Out(s, TRUE, 1, 0, TRUE)
  ELSE
    LET got == IF res.outcome = "ok"
               THEN [s EXCEPT !.keys = Put(s, "database_results"),
                              !.database_results = res.results]
               ELSE s
    IN  Out([got EXCEPT !.keys = Put(got, "completed_steps"),
                        !.completed_steps = got.completed_steps \o <<"database_query">>],
            FALSE, 1, IF res.outcome = "fail" THEN 1 ELSE 0, FALSE)

\* the web search storing its results under the database query's key
web_searcher_node_into_database_results(s, res) ==
  IF res.outcome = "raise" THEN Out(s, TRUE, 1, 0, TRUE)
  ELSE
    LET got == IF res.outcome = "ok"
               THEN [s EXCEPT !.keys = Put(s, "database_results"),
                              !.database_results = res.results]
               ELSE s
    IN  Out([got EXCEPT !.keys = Put(got, "completed_steps"),
                        !.completed_steps = got.completed_steps \o <<"web_searcher">>],
            FALSE, 1, IF res.outcome = "fail" THEN 1 ELSE 0, FALSE)

web_searcher_node(s, res) ==
  IF res.outcome = "raise" THEN Out(s, TRUE, 1, 0, TRUE)
  ELSE
    LET got == IF res.outcome = "ok"
               THEN [s EXCEPT !.keys = Put(s, "web_search_results"),
                              !.web_search_results = res.results]
               ELSE s
    IN  Out([got EXCEPT !.keys = Put(got, "completed_steps"),
                        !.completed_steps = got.completed_steps \o <<"web_searcher">>],
            FALSE, 1, IF res.outcome = "fail" THEN 1 ELSE 0, FALSE)

\* the reminder step taking its own entry off the front of the plan
reminder_creator_node_pops_plan(s) ==
  [s EXCEPT !.keys = Put(s, "completed_steps"),
            !.plan = IF s.plan = <<>> THEN <<>> ELSE Tail(s.plan),
            !.completed_steps = s.completed_steps \o <<"reminder_creator">>]

reminder_creator_node(s) ==
  [s EXCEPT !.keys = Put(s, "completed_steps"),
            !.completed_steps = s.completed_steps \o <<"reminder_creator">>]

\* ------------------------------------------------------- terminal handlers
\* the cuts of the context: extracted_bills[:5], formatted_docs[:10] and
\* text[:500]
ContextMaxItems == 5
ContextMaxDocs == 10
ContextMaxText == 500

\* q[:n]
Take(q, n) == SubSeq(q, 1, IF Len(q) < n THEN Len(q) ELSE n)

\* formatted_doc
format_doc(doc) == [text |-> Take(doc.text, ContextMaxText)]

\* the context with the documents' text passed on whole
generation_context_whole_text(s) ==
  [intent |-> s.intent,
   scan_type |-> s.entities.email_scan_type,
   extracted_items |-> Take(s.extracted_bills, ContextMaxItems),
   retrieved_documents |-> Take(s.retrieved_documents, ContextMaxDocs),
   database_results |-> s.database_results,
   errors |-> s.errors]

\* the context dict handed to generate_response
generation_context(s) ==
  [intent |-> s.intent,
   scan_type |-> s.entities.email_scan_type,
   extracted_items |-> Take(s.extracted_bills, ContextMaxItems),
   retrieved_documents |->
     Take([i \in 1..Len(s.retrieved_documents) |-> format_doc(s.retrieved_documents[i])],
          ContextMaxDocs),
   database_results |-> s.database_results,
   errors |-> s.errors]

KeyMissingMsg == <<"OPENAI_API_KEY not set in environment">>

\* the generator whose success-false branch sets the message and records
\* nothing in errors
response_generator_node_unrecorded(s, key, result) ==
  LET ledger(x) ==
        [x EXCEPT !.keys = Put(x, "completed_steps"),
                  !.completed_steps = x.completed_steps \o <<"response_generator">>]
      caught(text) ==
        [s EXCEPT !.keys = s.keys \cup {"final_response", "errors"},
                  !.final_response = Fmt("Error generating response: ", text),
                  !.errors = s.errors \o <<Fmt("Response generator exception: ", text)>>]
  IN  IF ~key THEN
        Out(ledger([s EXCEPT
                      !.keys = s.keys \cup {"final_response", "errors"},
                      !.final_response = Fmt("Configuration error: ", KeyMissingMsg),
                      !.errors = s.errors \o <<KeyMissingMsg>>]),
            FALSE, 0, 0, FALSE)
      ELSE IF ~Has(s, "entities") THEN
        Out(ledger(caught(KeyErrorEntities)), FALSE, 0, 0, FALSE)
      ELSE IF result.outcome = "ok" THEN
        Out(ledger([s EXCEPT !.keys = Put(s, "final_response"),
                             !.final_response = result.response]),
            FALSE, 1, 0, FALSE)
      ELSE IF result.outcome = "fail" THEN
        Out(ledger([s EXCEPT
              !.keys = Put(s, "final_response"),
              !.final_response =
                  Fmt("I found the documents but couldn't generate a response. Error: ",
                      result.error)]),
            FALSE, 1, 1, FALSE)
      ELSE Out(ledger(caught(ExcText)), FALSE, 1, 0, TRUE)

\* the generator assigning a fresh list to errors where the code extends it
response_generator_node_fresh_errors(s, key, result) ==
  LET ledger(x) ==
        [x EXCEPT !.keys = Put(x, "completed_steps"),
                  !.completed_steps = x.completed_steps \o <<"response_generator">>]
      caught(text) ==
        [s EXCEPT !.keys = s.keys \cup {"final_response", "errors"},
                  !.final_response = Fmt("Error generating response: ", text),
                  !.errors = <<Fmt("Response generator exception: ", text)>>]
  IN  IF ~key THEN
        Out(ledger([s EXCEPT
                      !.keys = s.keys \cup {"final_response", "errors"},
                      !.final_response = Fmt("Configuration error: ", KeyMissingMsg),
                      !.errors = <<KeyMissingMsg>>]),
            FALSE, 0, 0, FALSE)
      ELSE IF ~Has(s, "entities") THEN
        Out(ledger(caught(KeyErrorEntities)), FALSE, 0, 0, FALSE)
      ELSE IF result.outcome = "ok" THEN
        Out(ledger([s EXCEPT !.keys = Put(s, "final_response"),
                             !.final_response = result.response]),
            FALSE, 1, 0, FALSE)
      ELSE IF result.outcome = "fail" THEN
        Out(ledger([s EXCEPT
              !.keys = s.keys \cup {"final_response", "errors"},
              !.final_response =
                  Fmt("I found the documents but couldn't generate a response. Error: ",
                      result.error),
              !.errors = <<Fmt("Response generation failed: ", result.error)>>]),
            FALSE, 1, 1, FALSE)
      ELSE Out(ledger(caught(ExcText)), FALSE, 1, 0, TRUE)

\* key: settings.OPENAI_API_KEY is a non-empty string
response_generator_node(s, key, result) ==
  LET ledger(x) ==
        [x EXCEPT !.keys = Put(x, "completed_steps"),
                  !.completed_steps = x.completed_steps \o <<"response_generator">>]
      caught(text) ==
        [s EXCEPT !.keys = s.keys \cup {"final_response", "errors"},
                  !.final_response = Fmt("Error generating response: ", text),
                  !.errors = s.errors \o <<Fmt("Response generator exception: ", text)>>]
  IN  IF ~key THEN
        Out(ledger([s EXCEPT
                      !.keys = s.keys \cup {"final_response", "errors"},
                      !.final_response = Fmt("Configuration error: ", KeyMissingMsg),
                      !.errors = s.errors \o <<KeyMissingMsg>>]),
            FALSE, 0, 0, FALSE)
      ELSE IF ~Has(s, "entities") THEN
        Out(ledger(caught(KeyErrorEntities)), FALSE, 0, 0, FALSE)
      ELSE IF result.outcome = "ok" THEN
        Out(ledger([s EXCEPT !.keys = Put(s, "final_response"),
                             !.final_response = result.response]),
            FALSE, 1, 0, FALSE)
      ELSE IF result.outcome = "fail" THEN
        Out(ledger([s EXCEPT
              !.keys = s.keys \cup {"final_response", "errors"},
              !.final_response =
                  Fmt("I found the documents but couldn't generate a response. Error: ",
                      result.error),
              !.errors = s.errors \o <<Fmt("Response generation failed: ", result.error)>>]),
            FALSE, 1, 1, FALSE)
      ELSE Out(ledger(caught(ExcText)), FALSE, 1, 0, TRUE)

\* the error terminal returning the state as it found it
error_handler_node_silent(s) == Out(s, FALSE, 0, 0, FALSE)

error_handler_node(s) ==
  IF ~Has(s, "errors") THEN Out(s, TRUE, 0, 0, FALSE)
  ELSE Out([s EXCEPT !.keys = Put(s, "final_response"),
                     !.final_response = Fmt("Errors encountered: ", ListRepr(s.errors))],
           FALSE, 0, 0, FALSE)

\* ------------------------------------------------------ tool result sets
ClassifyResults ==
  { [outcome |-> "ok", intent |-> i, confidence |-> c,
     entities |-> [email_scan_type |-> k], error |-> <<>>] :
       i \in Intents, c \in Confidences, k \in ScanTypes }
  \cup
  { [outcome |-> "fail", intent |-> "unknown", confidence |-> 0,
     entities |-> [email_scan_type |-> NoScanType], error |-> e] : e \in ErrorTexts }
  \cup
  { [outcome |-> "raise", intent |-> "unknown", confidence |-> 0,
     entities |-> [email_scan_type |-> NoScanType], error |-> ExcText] }

ScanToolResults ==
  { [outcome |-> "ok", results |-> r, error |-> <<>>] : r \in ScanResults }
  \cup { [outcome |-> "fail", results |-> <<>>, error |-> e] : e \in StepErrorTexts }
  \cup { [outcome |-> "raise", results |-> <<>>, error |-> ExcText] }

\* parse_pdf: text, no text (a scanned page without OCR), failure, exception
ParseOutcomes == {"ok", "empty", "fail", "raise"}

\* rows a search or query tool returns; a row's text is a sequence of
\* characters
Doc1 == [text |-> <<"a">>]
Doc2 == [text |-> <<"b", "c">>]

ListToolResults ==
  { [outcome |-> "ok", results |-> r] : r \in {<<>>, <<Doc1>>, <<Doc1, Doc2>>} }
  \cup { [outcome |-> o, results |-> <<>>] : o \in {"fail", "raise"} }

GenerateResults ==
  { [outcome |-> "ok", response |-> r, error |-> <<>>] : r \in Responses }
  \cup { [outcome |-> "fail", response |-> <<>>, error |-> e] : e \in StepErrorTexts }
  \cup { [outcome |-> "raise", response |-> <<>>, error |-> ExcText] }

\* -------------------------------------------------------------- the graph
NoAnswer ==
  [outcome |-> "", intent |-> "", confidence |-> 0,
   entities |-> [email_scan_type |-> NoScanType], error |-> <<>>]

NoContext ==
  [intent |-> "", scan_type |-> NoScanType, extracted_items |-> <<>>,
   retrieved_documents |-> <<>>, database_results |-> <<>>, errors |-> <<>>]

NoResult ==
  [success |-> FALSE, emails_found |-> 0, filtered_count |-> 0, filtered_out |-> 0,
   files_downloaded |-> 0, filtered_log |-> <<>>, results |-> <<>>, failed |-> 0]

\* no scan under way
NoScan ==
  [phase |-> "none", listing |-> "ok", messages |-> <<>>, user_query |-> FALSE,
   require_attachments |-> FALSE, use_filtering |-> FALSE, result |-> NoResult]

\* no download made
NoDownloads ==
  [dir |-> {}, attachments |-> <<>>, files_downloaded |-> 0, returned |-> <<>>]

NoStep == [step |-> "", calls |-> 0, fails |-> 0, raised |-> FALSE, exc |-> FALSE]

Init ==
  /\ state = EmptyState
  /\ pc = "classify"
  /\ next = ""
  /\ decisions = 0
  /\ trace = <<>>
  /\ last = NoStep
  /\ answer = NoAnswer
  /\ apiKey \in BOOLEAN
  /\ context = NoContext
  /\ scan = NoScan
  /\ downloads = NoDownloads

\* what every handler run leaves behind in the graph
Ran(name, r, to) ==
  /\ state' = r.st
  /\ pc' = IF r.exc THEN "crashed" ELSE to
  /\ last' = [step |-> name, calls |-> r.calls, fails |-> r.fails,
              raised |-> r.raised, exc |-> r.exc]
  /\ UNCHANGED <<next, decisions, apiKey>>

Classify ==
  /\ pc = "classify"
  /\ \E result \in ClassifyResults :
       LET r == intent_classifier_node(state, result)
       IN  /\ Ran("intent_classification", r, "route_intent")
           \* the tool answers only when the handler invokes it
           /\ answer' = IF r.calls = 0 THEN answer ELSE result
  /\ UNCHANGED <<trace, context, scan, downloads>>

RouteAfterIntent ==
  /\ pc = "route_intent"
  /\ pc' = route_after_intent(state)
  /\ UNCHANGED <<state, next, decisions, trace, last, answer, apiKey, context, scan, downloads>>

Planner ==
  /\ pc = "planner"
  /\ state' = planner_node(state)
  /\ pc' = "route_plan"
  /\ UNCHANGED <<next, decisions, trace, last, answer, apiKey, context, scan, downloads>>

RouteAfterPlan ==
  /\ pc = "route_plan"
  /\ next' = route_after_plan(state)
  /\ pc' = "run"
  /\ decisions' = decisions + 1
  /\ UNCHANGED <<state, trace, last, answer, apiKey, context, scan, downloads>>

ShouldContinue ==
  /\ pc \in {"route_plan", "schedule"}
  /\ decisions < MaxDecisions
  /\ next' = should_continue(state)
  /\ pc' = IF next' = "end" THEN "done" ELSE "run"
  /\ decisions' = decisions + 1
  /\ UNCHANGED <<state, trace, last, answer, apiKey, context, scan, downloads>>

RunStep(name, r) ==
  /\ Ran(name, r, "schedule")
  /\ trace' = Append(trace, name)
  \* the generation tool is the one tool that is handed a context
  /\ context' = IF name = "response_generator" /\ r.calls = 1
                THEN generation_context(state) ELSE context
  /\ UNCHANGED <<answer, scan, downloads>>

EmailScanner ==
  /\ pc = "run" /\ next = "email_scanner"
  /\ \E result \in ScanToolResults :
       RunStep("email_scanner", email_scanner_node(state, result))

PdfProcessor ==
  /\ pc = "run" /\ next = "pdf_processor"
  /\ \E outs \in [1..Len(state.downloaded_files) -> ParseOutcomes] :
       RunStep("pdf_processor", pdf_processor_node(state, outs))

DataExtractor ==
  /\ pc = "run" /\ next = "data_extractor"
  /\ \E pdfOuts \in [1..Len(state.pdf_parse_results) -> Outcomes],
        mailOuts \in [1..Len(state.email_scan_results) -> Outcomes] :
       RunStep("data_extractor", data_extractor_node(state, pdfOuts, mailOuts))

DatabaseSaver ==
  /\ pc = "run" /\ next = "database_saver"
  /\ \E billOuts \in [1..Len(state.extracted_bills) -> Outcomes],
        mailOuts \in [1..Len(state.email_scan_results) -> Outcomes],
        pdfOuts \in [1..Len(state.pdf_parse_results) -> Outcomes] :
       RunStep("database_saver", database_saver_node(state, billOuts, mailOuts, pdfOuts))

RagRetriever ==
  /\ pc = "run" /\ next = "rag_retriever"
  /\ \E res \in ListToolResults :
       RunStep("rag_retriever", rag_retriever_node(state, res))

DatabaseQuery ==
  /\ pc = "run" /\ next = "database_query"
  /\ \E res \in ListToolResults :
       RunStep("database_query", database_query_node(state, res))

WebSearcher ==
  /\ pc = "run" /\ next = "web_searcher"
  /\ \E res \in ListToolResults :
       RunStep("web_searcher", web_searcher_node(state, res))

ReminderCreator ==
  /\ pc = "run" /\ next = "reminder_creator"
  /\ RunStep("reminder_creator",
             Out(reminder_creator_node(state), FALSE, 0, 0, FALSE))

ResponseGenerator ==
  /\ pc = "run" /\ next = "response_generator"
  /\ \E result \in GenerateResults :
       RunStep("response_generator", response_generator_node(state, apiKey, result))

ErrorHandler ==
  /\ pc = "error_handler"
  /\ Ran("error_handler", error_handler_node(state), "error_done")
  /\ UNCHANGED <<trace, answer, context, scan, downloads>>

Next ==
  \/ Classify
  \/ RouteAfterIntent
  \/ Planner
  \/ RouteAfterPlan
  \/ ShouldContinue
  \/ EmailScanner
  \/ PdfProcessor
  \/ DataExtractor
  \/ DatabaseSaver
  \/ RagRetriever
  \/ DatabaseQuery
  \/ WebSearcher
  \/ ReminderCreator
  \/ ResponseGenerator
  \/ ErrorHandler

Spec == Init /\ [][Next]_vars

\* the states of a request whose classification has already succeeded
ClassifiedStates ==
  { intent_classifier_node(EmptyState, result).st :
      result \in { x \in ClassifyResults : x.outcome = "ok" } }

\* the graph entered again with the state of a classified request
InitReentry ==
  /\ state \in ClassifiedStates
  /\ pc = "classify"
  /\ next = ""
  /\ decisions = 0
  /\ trace = <<>>
  /\ last = NoStep
  /\ answer = NoAnswer
  /\ apiKey \in BOOLEAN
  /\ context = NoContext
  /\ scan = NoScan
  /\ downloads = NoDownloads

SpecReentry == InitReentry /\ [][Next]_vars

\* ------------------------------------------ the response over long inputs
\* a text of n characters
Text(n) == [i \in 1..n |-> "x"]

\* lengths of a retrieved document's text, around the cut at 500
ContextTextLens == {0, ContextMaxText - 1, ContextMaxText, ContextMaxText + 1}

\* a query_history request after its rag_retriever step found n documents
\* with texts of len characters
RetrievedState(n, len) ==
  [EmptyState EXCEPT
     !.keys = @ \cup {"intent", "intent_confidence", "entities", "plan",
                      "retrieved_documents"},
     !.intent = "query_history",
     !.intent_confidence = 9,
     !.plan = plan_for("query_history"),
     !.completed_steps = <<"intent_classification", "planning", "rag_retriever">>,
     !.retrieved_documents = [i \in 1..n |-> [text |-> Text(len)]]]

\* a scan_emails request after its first four steps: k emails without
\* attachments, one item extracted from each body and saved
ExtractedState(k) ==
  [EmptyState EXCEPT
     !.keys = @ \cup {"intent", "intent_confidence", "entities", "plan",
                      "email_scan_results", "downloaded_files",
                      "pdf_parse_results", "extracted_bills", "saved_bill_ids"},
     !.intent = "scan_emails",
     !.intent_confidence = 9,
     !.plan = plan_for("scan_emails"),
     !.completed_steps = <<"intent_classification", "planning", "email_scanner",
                           "pdf_processor", "data_extractor", "database_saver">>,
     !.email_scan_results = [i \in 1..k |-> [subject |-> "s1", attachments |-> <<>>]],
     !.extracted_bills =
        [i \in 1..k |-> [type |-> "general", origin |-> "email",
                         source |-> <<"Email: ", "s1">>]],
     !.saved_bill_ids = [i \in 1..k |-> "bill_doc"] \o [i \in 1..k |-> "email_doc"]]

ContextStates ==
  { RetrievedState(n, len) : n \in 0..MaxContextDocs, len \in ContextTextLens }
  \cup { ExtractedState(k) : k \in 0..MaxContextItems }

\* the scheduler has just named response_generator, the last step of the plan
InitContext ==
  /\ state \in ContextStates
  /\ pc = "run"
  /\ next = "response_generator"
  /\ decisions = Len(state.plan)
  /\ trace = SubSeq(state.plan, 1, Len(state.plan) - 1)
  /\ last = NoStep
  /\ answer = NoAnswer
  /\ apiKey \in BOOLEAN
  /\ context = NoContext
  /\ scan = NoScan
  /\ downloads = NoDownloads

NextContext ==
  \/ ResponseGenerator
  \/ ShouldContinue

SpecContext == InitContext /\ [][NextContext]_vars

\* ------------------------------------------------- one call of the scanner
InitScan ==
  /\ state = EmptyState
  /\ pc = "scan"
  /\ next = ""
  /\ decisions = 0
  /\ trace = <<>>
  /\ last = NoStep
  /\ answer = NoAnswer
  /\ apiKey \in BOOLEAN
  /\ context = NoContext
  /\ \E listing \in {"ok", "raise"}, messages \in SeqsUpTo(Messages, MaxMessages),
        q \in BOOLEAN, r \in BOOLEAN, f \in BOOLEAN :
       /\ listing = "raise" => messages = <<>>
       /\ scan = [phase |-> "called", listing |-> listing, messages |-> messages,
                  user_query |-> q, require_attachments |-> r, use_filtering |-> f,
                  result |-> NoResult]
  /\ downloads = NoDownloads

Scan ==
  /\ pc = "scan"
  /\ scan.phase = "called"
  /\ scan' = [scan EXCEPT
                !.phase = "returned",
                !.result = scan_emails(scan.listing, scan.messages, scan.user_query,
                                       scan.require_attachments, scan.use_filtering)]
  /\ UNCHANGED <<state, pc, next, decisions, trace, last, answer, apiKey, context,
               downloads>>

NextScan == Scan

SpecScan == InitScan /\ [][NextScan]_vars

\* ------------------------------------------ the attachment parts of a scan
\* files that may be in the download directory from earlier scans
EarlierFiles ==
  {FilePath("a", <<>>), FilePath("a", <<1>>), FilePath("a", <<2>>)}

InitDownload ==
  /\ state = EmptyState
  /\ pc = "download"
  /\ next = ""
  /\ decisions = 0
  /\ trace = <<>>
  /\ last = NoStep
  /\ answer = NoAnswer
  /\ apiKey \in BOOLEAN
  /\ context = NoContext
  /\ scan = NoScan
  /\ \E dir \in SUBSET EarlierFiles :
       downloads = [NoDownloads EXCEPT !.dir = dir]

\* one attachment part of a scan that requires attachments: the download,
\* and the entry and the count when it returned a path
DownloadPart ==
  /\ pc = "download"
  /\ Len(downloads.returned) < MaxDownloads
  /\ \E filename \in Filenames, outcome \in DownloadOutcomes :
       LET r == download_attachment(downloads.dir, filename, outcome)
       IN  downloads' =
             [dir |-> r.dir,
              attachments |-> IF r.path # NoPath
                              THEN Append(downloads.attachments, r.path)
                              ELSE downloads.attachments,
              files_downloaded |-> IF r.path # NoPath
                                   THEN downloads.files_downloaded + 1
                                   ELSE downloads.files_downloaded,
              returned |-> Append(downloads.returned,
                                  [filename |-> filename, path |-> r.path,
                                   written |-> r.written])]
  /\ UNCHANGED <<state, pc, next, decisions, trace, last, answer, apiKey, context,
                 scan>>

NextDownload == DownloadPart

SpecDownload == InitDownload /\ [][NextDownload]_vars

\* ================================================================ claims
PlanStepNames ==
  {"email_scanner", "pdf_processor", "data_extractor", "database_saver",
   "rag_retriever", "database_query", "web_searcher", "reminder_creator",
   "response_generator"}

\* a plan step handler runs in this step
HandlerStep == pc = "run" /\ pc' # "run"

\* the run ended because a tool call raised and nothing caught it
ToolRaisedOut == pc = "crashed" /\ last.raised

\* the entries of the ledger after "planning"
RECURSIVE AfterPlanning(_)
AfterPlanning(completed) ==
  IF completed = <<>> THEN <<>>
  ELSE IF Head(completed) = "planning" THEN Tail(completed)
  ELSE AfterPlanning(Tail(completed))

\* how far a run has got: the nodes before the loop in their order, then
\* two per scheduling decision (the decision and the handler it names)
Rank ==
  IF pc = "classify" THEN 0
  ELSE IF pc = "route_intent" THEN 1
  ELSE IF pc \in {"planner", "error_handler"} THEN 2
  ELSE IF pc \in {"route_plan", "error_done"} THEN 3
  ELSE IF pc \in {"run", "done"} THEN 2 + 2 * decisions
  ELSE 3 + 2 * decisions

\* every step of the graph moves the run on, so no run goes on for ever
EveryStepAdvances == [][Rank' > Rank]_vars

\* C1: from the state the planner leaves, the loop of scheduling decisions
\* and handler runs never takes more than len(plan) + 1 decisions, every step
\* of it moves on, and it stops only at "end", unless a tool call raised out
\* of a handler.
C1_TerminatesWithinPlanPlusOne ==
  /\ [](decisions <= Len(state.plan) + 1)
  /\ [](pc = "done" => next = "end")
  /\ [](pc \in {"route_plan", "run", "schedule"} => ENABLED Next)
  /\ [](pc = "crashed" => last.raised)
  /\ EveryStepAdvances

C1_Witness ==
  pc = "done" /\ Len(state.plan) = 5 /\ decisions = Len(state.plan) + 1

\* C2: every handler a scheduling decision names makes completed_steps
\* exactly one entry longer, its own name, on every path through it.
C2_EveryHandlerAppendsItsName ==
  [][HandlerStep =>
       state'.completed_steps = Append(state.completed_steps, next)]_vars

\* C3: the handlers run in the plan's order with none skipped; at "end" the
\* ledger after "planning" is the plan; a scan_emails request visits its five
\* steps in order whatever the earlier steps produced.
C3_PlanOrder ==
  /\ IsPrefix(trace, state.plan)
  /\ pc = "done" =>
       /\ trace = state.plan
       /\ AfterPlanning(state.completed_steps) = state.plan
  /\ (pc = "done" /\ state.intent = "scan_emails") =>
       trace = <<"email_scanner", "pdf_processor", "data_extractor",
                 "database_saver", "response_generator">>

C3_Witness ==
  /\ pc = "done"
  /\ state.intent = "scan_emails"
  /\ state.entities.email_scan_type = NoScanType
  /\ ~Has(state, "email_scan_results")
  /\ state.extracted_bills = <<>>
  /\ Len(trace) = 5

\* C4: a scheduling decision never names a step that is in completed_steps,
\* and no step handler runs twice.
C4_NoStepTwice ==
  /\ pc = "run" => ~InSeq(next, state.completed_steps)
  /\ \A i, j \in 1..Len(trace) : i # j => trace[i] # trace[j]

C4_Witness ==
  pc = "run" /\ Len(trace) = 4 /\ next = "response_generator"

\* C5: at a terminal point (the error handler has run, or the scheduler said
\* "end") final_response is set; and every run gets to one, unless a tool
\* call raised out of a handler: a run stops nowhere else and no run goes on
\* beyond the steps of its plan.
C5_AlwaysSomeFinalResponse ==
  /\ [](pc \in {"done", "error_done"} => Has(state, "final_response"))
  /\ [](pc \notin {"done", "error_done"} => (ENABLED Next \/ ToolRaisedOut))
  /\ [](Rank <= 3 + 2 * (Len(state.plan) + 1))
  /\ EveryStepAdvances

C5_Witness ==
  /\ pc = "done"
  /\ ~apiKey
  /\ state.final_response = Fmt("Configuration error: ", KeyMissingMsg)

\* C6: when a tool call raises inside a handler, the handler still returns,
\* with an errors entry added and the step in completed_steps.
C6_NoExceptionCrossesAStep ==
  [][(HandlerStep /\ last'.raised) =>
       /\ ~last'.exc
       /\ Len(state'.errors) = Len(state.errors) + 1
       /\ state'.completed_steps = Append(state.completed_steps, next)]_vars

\* C7: when a tool invocation of a plan step returns success false (and none
\* raises), errors gets an entry and the step appends its name.
C7_FailedCallIsRecorded ==
  [][(HandlerStep /\ last'.fails > 0 /\ ~last'.raised) =>
       /\ Len(state'.errors) > Len(state.errors)
       /\ state'.completed_steps = Append(state.completed_steps, next)]_vars

\* C8: when exactly one item's sub-call of a per-item loop returns success
\* false, the loop goes over the remaining items, errors gets exactly one new
\* entry, the step is recorded and the next step is scheduled.
C8_OneItemFailureIsRecorded ==
  [][(/\ HandlerStep
      /\ next \in {"pdf_processor", "data_extractor", "database_saver"}
      /\ last'.calls >= 2 /\ last'.fails = 1 /\ ~last'.raised) =>
       /\ Len(state'.errors) = Len(state.errors) + 1
       /\ state'.completed_steps = Append(state.completed_steps, next)
       /\ pc' = "schedule"]_vars

\* C9: a classification that returns success false with error e leaves
\* intent "unknown", errors extended by the one entry "Intent failed: e",
\* completed_steps as it was and the router on "error_handler"; the final
\* response of the error handler then contains that entry.
C9_ClassificationFailure ==
  /\ [][(pc = "classify" /\ answer'.outcome = "fail") =>
          /\ state'.intent = "unknown"
          /\ state'.errors =
               Append(state.errors, <<"Intent failed: ">> \o answer'.error)
          /\ state'.completed_steps = state.completed_steps
          /\ pc' = "route_intent"
          /\ route_after_intent(state') = "error_handler"]_vars
  /\ [](answer.outcome = "fail" =>
          /\ pc \in {"route_intent", "error_handler", "error_done"}
          /\ pc = "error_done" =>
               Contains(state.final_response,
                        <<"Intent failed: ">> \o answer.error))

C9_Witness ==
  /\ pc = "error_done"
  /\ answer.outcome = "fail"
  /\ answer.error = <<"timeout">>
  /\ state.errors = << <<"Intent failed: ", "timeout">> >>

\* C10: once classification has left intent "unknown", the run goes to the
\* error handler: the planner and the plan steps never run, plan is never
\* set, and the final response carries every entry of errors.
C10_UnknownGoesToErrorTerminal ==
  (pc # "classify" /\ state.intent = "unknown") =>
    /\ pc \in {"route_intent", "error_handler", "error_done"}
    /\ ~Has(state, "plan")
    /\ trace = <<>>
    /\ \A i \in 1..Len(state.completed_steps) :
         state.completed_steps[i] \notin PlanStepNames \cup {"planning"}
    /\ pc = "error_done" =>
         /\ Has(state, "final_response")
         /\ Contains(state.final_response, <<"Errors encountered: ", "[">>)
         /\ \A i \in 1..Len(state.errors) :
              Contains(state.final_response, state.errors[i])

C10_Witness ==
  /\ pc = "error_done"
  /\ answer.outcome = "ok"
  /\ state.intent = "unknown"
  /\ state.completed_steps = <<"intent_classification">>

\* C11: when the generation call returns success false or raises, the
\* response generator sets final_response to one of its two degraded
\* messages (never a generated answer), extends errors by exactly one entry,
\* appends "response_generator" to completed_steps and returns to the
\* scheduler.
C11_GenerationFailure ==
  [][(/\ pc = "run" /\ next = "response_generator"
      /\ last'.calls = 1
      /\ (last'.fails = 1 \/ last'.raised)) =>
       /\ Has(state', "final_response")
       /\ state'.final_response \in
            { Fmt("I found the documents but couldn't generate a response. Error: ", e) :
                e \in StepErrorTexts }
            \cup {Fmt("Error generating response: ", ExcText)}
       /\ state'.final_response \notin Responses
       /\ IsPrefix(state.errors, state'.errors)
       /\ Len(state'.errors) = Len(state.errors) + 1
       /\ state'.completed_steps = Append(state.completed_steps, "response_generator")
       /\ ~last'.exc
       /\ pc' = "schedule"]_vars

C11_Witness ==
  /\ pc = "done"
  /\ last.step = "response_generator"
  /\ last.fails = 1
  /\ Len(state.errors) = 1
  /\ Contains(state.final_response, <<"I found the documents but couldn't generate a response. Error: ">>)

\* C12: the plan depends on the intent alone and is never empty: for every
\* intent, in the planner's table or not, the planner run on the current
\* state with that intent and any entities gives the non-empty plan it gives
\* on an otherwise empty state with that intent; and the plan the planner has
\* left in the state is that plan.
C12_PlanIsAFunctionOfIntent ==
  /\ \A i \in Intents, k \in ScanTypes :
       LET s1 == [state EXCEPT !.intent = i, !.entities.email_scan_type = k]
           s0 == [EmptyState EXCEPT !.intent = i]
       IN  /\ Has(planner_node(s1), "plan")
           /\ planner_node(s1).plan # <<>>
           /\ planner_node(s1).plan = planner_node(s0).plan
  /\ Has(state, "plan") =>
       /\ state.plan # <<>>
       /\ state.plan = planner_node([EmptyState EXCEPT !.intent = state.intent]).plan

C12_Witness ==
  /\ pc = "route_plan"
  /\ state.intent = "scan_emails"
  /\ state.entities.email_scan_type = "promotions"
  /\ Len(state.plan) = 5

\* C13: an intent outside the planner's table gets the plan
\* [rag_retriever, response_generator], two steps.
C13_DefaultPlan ==
  /\ \A i \in Intents \ PlannerTable :
       planner_node([state EXCEPT !.intent = i]).plan =
         <<"rag_retriever", "response_generator">>
  /\ (Has(state, "plan") /\ state.intent \notin PlannerTable) =>
       /\ state.plan = <<"rag_retriever", "response_generator">>
       /\ Len(state.plan) = 2

C13_Witness ==
  /\ pc = "done"
  /\ state.intent = "scan_bills"
  /\ trace = <<"rag_retriever", "response_generator">>

\* C14: completed_steps only grows at its end (its value before a step is a
\* prefix of its value after), and no name is in it twice.
C14_LedgerGrowsWithoutRepeats ==
  /\ [][IsPrefix(state.completed_steps, state'.completed_steps)]_vars
  /\ [](\A i, j \in 1..Len(state.completed_steps) :
          i # j => state.completed_steps[i] # state.completed_steps[j])

C14_Witness ==
  /\ pc = "done"
  /\ Len(state.completed_steps) = 7
  /\ state.completed_steps[1] = "intent_classification"
  /\ state.completed_steps[2] = "planning"

\* C15: errors is append-only: across every step of a request, handler runs
\* included, the list before is a prefix of the list after.
C15_ErrorsAppendOnly ==
  [][/\ IsPrefix(state.errors, state'.errors)
     /\ Has(state, "errors") => Has(state', "errors")]_vars

C15_Witness ==
  /\ pc = "done"
  /\ last.step = "response_generator"
  /\ Len(state.errors) = 2
  /\ state.errors[1] = Fmt("Scan failed: ", <<"rate limited">>)
  /\ state.errors[2] = Fmt("Response generator exception: ", ExcText)

\* C16: only the planner writes plan: every other step (the classifier, the
\* routers, the scheduler, the plan step handlers, the error handler) leaves
\* the key and its value as they were, and the planner sets it.
C16_OnlyThePlannerWritesPlan ==
  [][/\ pc # "planner" =>
          /\ state'.plan = state.plan
          /\ Has(state', "plan") <=> Has(state, "plan")
     /\ pc = "planner" => Has(state', "plan")]_vars

C16_Witness ==
  /\ pc = "done"
  /\ state.intent = "set_reminder"
  /\ trace = <<"database_query", "reminder_creator", "response_generator">>
  /\ state.plan = trace

\* the result slots of the state
Slots ==
  {"email_scan_results", "downloaded_files", "pdf_parse_results",
   "extracted_bills", "saved_bill_ids", "retrieved_documents",
   "database_results", "web_search_results", "final_response"}

\* the plan step whose handler assigns the slot
SlotProducer(slot) ==
  IF slot \in {"email_scan_results", "downloaded_files"} THEN "email_scanner"
  ELSE IF slot = "pdf_parse_results" THEN "pdf_processor"
  ELSE IF slot = "extracted_bills" THEN "data_extractor"
  ELSE IF slot = "saved_bill_ids" THEN "database_saver"
  ELSE IF slot = "retrieved_documents" THEN "rag_retriever"
  ELSE IF slot = "database_results" THEN "database_query"
  ELSE IF slot = "web_search_results" THEN "web_searcher"
  ELSE "response_generator"

\* the node of the graph that acts in this step
RunningNode == IF pc = "run" THEN next ELSE pc

\* this step sets the slot or changes its value
Written(slot) ==
  \/ Has(state', slot) # Has(state, slot)
  \/ state'[slot] # state[slot]

\* C17 as stated: a slot is written only while its one producing step runs,
\* and is unset as long as that step has not run; the producer of
\* final_response being the response generator.
C17_OneProducerPerSlot ==
  /\ [][\A slot \in Slots : Written(slot) => RunningNode = SlotProducer(slot)]_vars
  /\ [](\A slot \in Slots : Has(state, slot) => InSeq(SlotProducer(slot), trace))

\* C17 amended: final_response has two writers, the response generator and
\* the error handler, and is unset until one of them has run; each of the
\* other eight slots is written only while its one producing step runs and is
\* unset until that step has run.
C17_ProducersWithErrorHandler ==
  /\ [][\A slot \in Slots :
          Written(slot) =>
            \/ RunningNode = SlotProducer(slot)
            \/ slot = "final_response" /\ RunningNode = "error_handler"]_vars
  /\ [](\A slot \in Slots :
          Has(state, slot) =>
            \/ InSeq(SlotProducer(slot), trace)
            \/ slot = "final_response" /\ last.step = "error_handler")

C17_Witness ==
  /\ pc = "error_done"
  /\ Has(state, "final_response")
  /\ trace = <<>>
  /\ \A slot \in Slots \ {"final_response"} : ~Has(state, slot)

\* C18: entered with "intent_classification" already in completed_steps, the
\* classifier returns the state it was given and makes no tool call; the run
\* goes on to the router.
C18_ReentryIsANoOp ==
  [][(pc = "classify" /\ InSeq("intent_classification", state.completed_steps)) =>
       /\ state' = state
       /\ last'.calls = 0
       /\ answer' = answer
       /\ ~last'.exc
       /\ pc' = "route_intent"]_vars

C18_Witness ==
  /\ pc = "route_intent"
  /\ last.step = "intent_classification"
  /\ last.calls = 0
  /\ answer = NoAnswer
  /\ state.intent = "scan_emails"
  /\ state.completed_steps = <<"intent_classification">>

\* C19: a successful classification stores the tool's confidence and
\* entities, stores the tool's intent after the refinement rule (a generic
\* scan intent whose entity flag names a type with attachments becomes the
\* specific scan intent), appends "intent_classification" once and leaves
\* errors as it was.
C19_SuccessfulClassification ==
  [][(pc = "classify" /\ last'.calls = 1 /\ answer'.outcome = "ok") =>
       LET refined ==
             IF /\ answer'.intent = "scan_emails"
                /\ answer'.entities.email_scan_type \in AttachmentTypes
             THEN "scan_bills"
             ELSE answer'.intent
       IN  /\ state'.intent = refined
           /\ state'.intent_confidence = answer'.confidence
           /\ state'.entities = answer'.entities
           /\ state'.completed_steps =
                Append(state.completed_steps, "intent_classification")
           /\ state'.errors = state.errors]_vars

\* C20: the router after classification goes to the error handler exactly
\* when intent is "unknown" and to the planner for every other intent, and
\* changes nothing in the state.
C20_RouteAfterIntentIsPure ==
  [][pc = "route_intent" =>
       /\ (pc' = "error_handler") <=> (state.intent = "unknown")
       /\ (pc' = "planner") <=> (state.intent # "unknown")
       /\ state' = state]_vars

C20_Witness ==
  /\ pc = "planner"
  /\ state.intent = "smalltalk"
  /\ state.errors = <<>>

\* C21: the router after planning names the first entry of the plan, or
\* "response_generator" for an empty plan, and changes nothing in the state;
\* on the state the planner leaves it names the step should_continue names.
C21_RouteAfterPlan ==
  /\ [][pc = "route_plan" =>
          /\ state' = state
          /\ next' = state.plan[1]
          /\ pc' = "run"]_vars
  /\ [](pc = "route_plan" =>
          /\ state.plan # <<>>
          /\ route_after_plan(state) = state.plan[1]
          /\ route_after_plan(state) = should_continue(state)
          /\ route_after_plan([state EXCEPT !.plan = <<>>]) = "response_generator")

C21_Witness ==
  /\ pc = "run"
  /\ decisions = 1
  /\ trace = <<>>
  /\ state.intent = "find_alternatives"
  /\ next = "database_query"

\* C22: a scheduling decision changes nothing in the state; it names the
\* first entry of the plan that is not in completed_steps, or "end" when
\* every entry is; and asked again on the state it leaves it names the same.
C22_ShouldContinueReadsOnly ==
  [][pc = "schedule" =>
       /\ state' = state
       /\ should_continue(state') = next'
       /\ next' = "end" =>
            \A i \in 1..Len(state.plan) : InSeq(state.plan[i], state.completed_steps)
       /\ next' # "end" =>
            \E i \in 1..Len(state.plan) :
               /\ state.plan[i] = next'
               /\ ~InSeq(next', state.completed_steps)
               /\ \A j \in 1..(i - 1) : InSeq(state.plan[j], state.completed_steps)]_vars

C22_Witness ==
  /\ pc = "run"
  /\ decisions = 3
  /\ Len(trace) = 2
  /\ next = "data_extractor"

C24_FailedRelevanceCheckIncludes ==
  (scan.phase = "returned" /\ scan.result.success
     /\ scan.use_filtering /\ scan.user_query) =>
    \A i \in 1..Len(scan.messages) :
       (/\ scan.messages[i].fetch = "ok"
        /\ scan.messages[i].verdict \in {"llm_error", "setup_error"}) =>
         /\ \E j \in 1..Len(scan.result.results) : scan.result.results[j].id = i
         /\ \A j \in 1..Len(scan.result.filtered_log) :
              scan.result.filtered_log[j].id # i

\* C30: in a scan that returned success, the results number filtered_count,
\* the filtered log numbers filtered_out, and these two and the messages
\* whose processing raised add up to emails_found, the number of messages
\* listed: every message is in exactly one of the three, also those listed
\* after one that raised.
C30_EveryMessageAccountedOnce ==
  (scan.phase = "returned" /\ scan.result.success) =>
    LET res == scan.result
        included == { res.results[j].id : j \in 1..Len(res.results) }
        filtered == { res.filtered_log[j].id : j \in 1..Len(res.filtered_log) }
        raised == { i \in 1..Len(scan.messages) : scan.messages[i].fetch = "raise" }
    IN  /\ Len(res.results) = res.filtered_count
        /\ Len(res.filtered_log) = res.filtered_out
        /\ res.emails_found = Len(scan.messages)
        /\ res.failed = Cardinality(raised)
        /\ res.filtered_count + res.filtered_out + res.failed = res.emails_found
        /\ Cardinality(included) = res.filtered_count
        /\ Cardinality(filtered) = res.filtered_out
        /\ included \cup filtered \cup raised = 1..Len(scan.messages)
        /\ included \cap filtered = {}
        /\ included \cap raised = {}
        /\ filtered \cap raised = {}

C30_Witness ==
  /\ scan.phase = "returned"
  /\ scan.result.success
  /\ Len(scan.messages) = 2
  /\ scan.messages[1].fetch = "raise"
  /\ scan.result.failed = 1
  /\ scan.result.filtered_out = 1
  /\ scan.result.filtered_count = 0

\* C25: in every plan the planner can produce no step name is there twice
\* and "response_generator" is the last entry and no other; so when the
\* scheduler has said "end", the response generator has run exactly once and
\* was the last handler to run.
C25_PlansEndWithTheResponse ==
  /\ \A i \in Intents :
       LET p == planner_node([state EXCEPT !.intent = i]).plan
       IN  /\ \A j, k \in 1..Len(p) : j # k => p[j] # p[k]
           /\ p # <<>>
           /\ \A j \in 1..Len(p) : (p[j] = "response_generator") <=> (j = Len(p))
  /\ Has(state, "plan") =>
       /\ \A j, k \in 1..Len(state.plan) : j # k => state.plan[j] # state.plan[k]
       /\ \A j \in 1..Len(state.plan) :
            (state.plan[j] = "response_generator") <=> (j = Len(state.plan))
  /\ pc = "done" =>
       /\ trace # <<>>
       /\ \A j \in 1..Len(trace) : (trace[j] = "response_generator") <=> (j = Len(trace))
       /\ last.step = "response_generator"

C25_Witness ==
  /\ pc = "done"
  /\ state.intent = "manual_add"
  /\ trace = <<"data_extractor", "database_saver", "response_generator">>

\* the first scheduling decision of the run named email_scanner
ScanScheduled ==
  \/ pc = "run" /\ next = "email_scanner"
  \/ trace # <<>> /\ trace[1] = "email_scanner"

\* C26 as stated: once scheduling has begun, email_scanner is scheduled
\* exactly when the intent is "scan_emails", and under every other intent of
\* the classifier's vocabulary none of email_scanner, pdf_processor and
\* database_saver is ever scheduled or run.
C26_ScanStepsOnlyForScanEmails ==
  decisions >= 1 =>
    /\ ScanScheduled <=> (state.intent = "scan_emails")
    /\ state.intent \in ClassifierVocabulary \ {"scan_emails"} =>
         /\ \A j \in 1..Len(state.plan) :
              state.plan[j] \notin {"email_scanner", "pdf_processor", "database_saver"}
         /\ \A j \in 1..Len(trace) :
              trace[j] \notin {"email_scanner", "pdf_processor", "database_saver"}

\* C26 amended: email_scanner is scheduled exactly when the intent is
\* "scan_emails"; under every other intent of the vocabulary neither
\* email_scanner nor pdf_processor is ever scheduled or run, and
\* database_saver is only under "manual_add", whose plan has it.
C26_ScanOnlyForScanEmails ==
  decisions >= 1 =>
    /\ ScanScheduled <=> (state.intent = "scan_emails")
    /\ state.intent \in ClassifierVocabulary \ {"scan_emails"} =>
         /\ \A j \in 1..Len(state.plan) :
              /\ state.plan[j] \notin {"email_scanner", "pdf_processor"}
              /\ state.plan[j] = "database_saver" => state.intent = "manual_add"
         /\ \A j \in 1..Len(trace) :
              /\ trace[j] \notin {"email_scanner", "pdf_processor"}
              /\ trace[j] = "database_saver" => state.intent = "manual_add"

C26_Witness ==
  /\ pc = "done"
  /\ state.intent = "scan_bills"
  /\ state.entities.email_scan_type = "bills"
  /\ trace = <<"rag_retriever", "response_generator">>
  /\ ~Has(state, "email_scan_results")

\* C27: after a successful scan downloaded_files is the attachment paths of
\* all returned emails, in order, when email_scan_type is one of bills,
\* invoice, receipts, orders, and empty for any other type or none; after a
\* failed or raising scan email_scan_results and downloaded_files stay
\* unset, errors has one entry more and the step is in the ledger, and the
\* PDF step that follows makes no parse call.
C27_DownloadedFiles ==
  /\ [][(pc = "run" /\ next = "email_scanner") =>
          /\ (last'.fails = 0 /\ ~last'.raised) =>
               /\ Has(state', "email_scan_results")
               /\ Has(state', "downloaded_files")
               /\ state'.errors = state.errors
               /\ state'.downloaded_files =
                    IF state.entities.email_scan_type \in
                         {"bills", "invoice", "receipts", "orders"}
                    THEN attachment_paths(state'.email_scan_results)
                    ELSE <<>>
          /\ (last'.fails = 1 \/ last'.raised) =>
               /\ ~Has(state', "email_scan_results")
               /\ ~Has(state', "downloaded_files")
               /\ Len(state'.errors) = Len(state.errors) + 1
               /\ IsPrefix(state.errors, state'.errors)
          /\ last'.calls = 1
          /\ state'.completed_steps = Append(state.completed_steps, "email_scanner")
          /\ pc' = "schedule"]_vars
  /\ [][(pc = "run" /\ next = "pdf_processor" /\ ~Has(state, "downloaded_files")) =>
          /\ last'.calls = 0
          /\ state'.pdf_parse_results = <<>>
          /\ Has(state', "pdf_parse_results")]_vars

C27_Witness ==
  /\ last.step = "pdf_processor"
  /\ last.calls = 0
  /\ ~Has(state, "downloaded_files")
  /\ ~Has(state, "email_scan_results")
  /\ state.errors = <<Fmt("Scanner Error: ", ExcText)>>
  /\ state.completed_steps[Len(state.completed_steps)] = "pdf_processor"

\* C28: when the extractor returns, it has called extract_data once for each
\* parsed PDF that has text, and once for each email body exactly when no
\* PDF gave an item and email_scan_results is present; the items of
\* extracted_bills all come from PDFs or all from email bodies.
C28_EmailBodiesOnlyAsFallback ==
  [][(pc = "run" /\ next = "data_extractor" /\ ~last'.exc) =>
       LET items == state'.extracted_bills
           fromPdf == { i \in 1..Len(items) : items[i].origin = "pdf" }
           fromMail == { i \in 1..Len(items) : items[i].origin = "email" }
           texts == { i \in 1..Len(state.pdf_parse_results) :
                        state.pdf_parse_results[i].extracted_text }
           fallback == fromPdf = {} /\ Has(state, "email_scan_results")
       IN  /\ fromPdf = {} \/ fromMail = {}
           /\ fromPdf \cup fromMail = 1..Len(items)
           /\ last'.calls = Cardinality(texts) +
                (IF fallback THEN Len(state.email_scan_results) ELSE 0)
           /\ fromMail # {} => fallback]_vars

C28_Witness ==
  /\ last.step = "data_extractor"
  /\ last.calls = 3
  /\ last.fails = 1
  /\ Len(state.pdf_parse_results) = 1
  /\ state.pdf_parse_results[1].extracted_text
  /\ Len(state.extracted_bills) = 2
  /\ state.extracted_bills[1].origin = "email"

\* C29: under the manual_add plan neither data_extractor nor database_saver
\* makes a tool call, no step sets email_scan_results or pdf_parse_results,
\* and the run ends with extracted_bills and saved_bill_ids set to empty
\* lists.
C29_ManualAddSavesNothing ==
  /\ [][(pc = "run" /\ state.intent = "manual_add"
           /\ next \in {"data_extractor", "database_saver"}) =>
          /\ last'.calls = 0
          /\ ~last'.exc
          /\ pc' = "schedule"]_vars
  /\ [](state.intent = "manual_add" =>
          /\ ~Has(state, "email_scan_results")
          /\ ~Has(state, "pdf_parse_results")
          /\ state.extracted_bills = <<>>
          /\ state.saved_bill_ids = <<>>
          /\ Has(state, "plan") =>
               state.plan = <<"data_extractor", "database_saver", "response_generator">>
          /\ pc = "done" =>
               /\ Has(state, "extracted_bills")
               /\ Has(state, "saved_bill_ids"))

C29_Witness ==
  /\ pc = "done"
  /\ state.intent = "manual_add"
  /\ Has(state, "saved_bill_ids")
  /\ state.saved_bill_ids = <<>>
  /\ last.step = "response_generator"
  /\ last.calls = 1

\* C31: a download never writes to a path that was there before the call
\* and takes no file away; the path a successful download returns is the
\* name asked for, or that name with "_k" when the name and every "_j" below
\* k were taken; the paths returned by successful downloads are pairwise
\* distinct; a download that returns None adds no attachment entry and does
\* not count in files_downloaded.
C31_DownloadNeverOverwrites ==
  /\ [][pc = "download" =>
          LET e == downloads'.returned[Len(downloads'.returned)]
              candidate(k) ==
                IF k = 0 THEN e.filename
                ELSE FilePath(e.filename.base, Append(e.filename.sfx, k))
          IN  /\ downloads.dir \subseteq downloads'.dir
              /\ e.written # NoPath =>
                   /\ e.written \notin downloads.dir
                   /\ e.written \in downloads'.dir
              /\ e.path # NoPath =>
                   /\ e.path = e.written
                   /\ \E k \in 0..Cardinality(downloads.dir) :
                        /\ e.path = candidate(k)
                        /\ \A j \in 0..(k - 1) : candidate(j) \in downloads.dir
                   /\ downloads'.attachments = Append(downloads.attachments, e.path)
                   /\ downloads'.files_downloaded = downloads.files_downloaded + 1
              /\ e.path = NoPath =>
                   /\ downloads'.attachments = downloads.attachments
                   /\ downloads'.files_downloaded = downloads.files_downloaded]_vars
  /\ [](/\ \A i, j \in 1..Len(downloads.attachments) :
             i # j => downloads.attachments[i] # downloads.attachments[j]
        /\ downloads.files_downloaded = Len(downloads.attachments)
        /\ \A i \in 1..Len(downloads.attachments) :
             downloads.attachments[i] \in downloads.dir)

C31_Witness ==
  /\ Len(downloads.returned) = 3
  /\ \A i \in 1..3 : downloads.returned[i].filename = FilePath("a", <<>>)
  /\ downloads.attachments =
       <<FilePath("a", <<>>), FilePath("a", <<1>>), FilePath("a", <<2>>)>>
  /\ downloads.files_downloaded = 3

====
